---- MODULE Spec2Model ----
(***************************************************************************)
(* Model of jules-scratch/verification/verify_ui_revamp.py: the script     *)
(* run_verification() and its process entry point.  One process run is one *)
(* forward pass over the statements of the script; the file system and the *)
(* list of finished runs survive from one process run to the next.         *)
(***************************************************************************)
EXTENDS Integers, Sequences, FiniteSets

VARIABLES pc, run, browser, out, fs, fsAtStart, res, attempts, elapsed,
          pending, captured, exitStatus, hist

vars == <<pc, run, browser, out, fs, fsAtStart, res, attempts, elapsed,
          pending, captured, exitStatus, hist>>

\* ------------------------------------------------------------------ bounds
MaxRuns == 2        \* process runs in a row
MaxContent == 2     \* distinct page renderings a screenshot can capture
TickMs == 15000     \* granularity of the clock of the two blocking calls
AttemptCap == 2     \* the attempt counters saturate here

\* --------------------------------------------------------- program constants
GotoTimeoutMs == 60000
WaitTimeoutMs == 30000
ScreenshotPath == "jules-scratch/verification/landing_screen.png"

MsgCapturing == <<"Capturing Landing Screen...", "">>
MsgCaptured == <<"Landing Screen captured.", "">>
MsgClosed == <<"Browser closed.", "">>
ErrPrefix == "An error occurred during Playwright execution: "
MsgError(e) == <<ErrPrefix, e>>

\* ------------------------------------------------------------------ helpers
NoRes == [launch |-> "none", new_page |-> "none", goto |-> "none",
          wait |-> "none", screenshot |-> "none", close |-> "none"]
NoAttempts == [launch |-> 0, new_page |-> 0, goto |-> 0,
               wait |-> 0, screenshot |-> 0, close |-> 0]

Bump(a, step) == [a EXCEPT ![step] = IF @ < AttemptCap THEN @ + 1 ELSE @]

Contents == {<<"png", n>> : n \in 1..MaxContent}
Partial == <<"partial", 0>>

NoFiles == [p \in {} |-> Partial]
WriteFile(files, path, c) ==
    [p \in DOMAIN files \cup {path} |-> IF p = path THEN c ELSE files[p]]

Emit(msg) == out' = Append(out, msg)

\* ------------------------------------------------------------------- state
Init ==
    /\ pc = "launch"
    /\ run = 1
    /\ browser = "none"
    /\ out = <<>>
    /\ fs \in {NoFiles} \cup {WriteFile(NoFiles, ScreenshotPath, c) : c \in Contents}
    /\ fsAtStart = fs
    /\ res = NoRes
    /\ attempts = NoAttempts
    /\ elapsed = 0
    /\ pending = "none"
    /\ captured = <<>>
    /\ exitStatus = 0
    /\ hist = <<>>

\* browser = p.chromium.launch(headless=True), before the try statement
Launch ==
    /\ pc = "launch"
    /\ attempts' = Bump(attempts, "launch")
    /\ \/ /\ res' = [res EXCEPT !.launch = "ok"]
          /\ browser' = "running"
          /\ pc' = "new_page"
          /\ UNCHANGED pending
       \/ /\ res' = [res EXCEPT !.launch = "error"]
          /\ pending' = "launch failed"
          /\ pc' = "with_exit"
          /\ UNCHANGED browser
    /\ UNCHANGED <<run, out, fs, fsAtStart, elapsed, captured, exitStatus, hist>>

\* variant: new_page() moved inside the try statement
NewPageInTry ==
    /\ pc = "new_page"
    /\ attempts' = Bump(attempts, "new_page")
    /\ \/ /\ res' = [res EXCEPT !.new_page = "ok"]
          /\ pc' = "goto"
          /\ elapsed' = 0
          /\ UNCHANGED pending
       \/ /\ res' = [res EXCEPT !.new_page = "error"]
          /\ pending' = "new_page failed"
          /\ pc' = "except"
          /\ UNCHANGED elapsed
    /\ UNCHANGED <<run, browser, out, fs, fsAtStart, captured, exitStatus, hist>>

\* page = browser.new_page(), before the try statement
NewPage ==
    /\ pc = "new_page"
    /\ attempts' = Bump(attempts, "new_page")
    /\ \/ /\ res' = [res EXCEPT !.new_page = "ok"]
          /\ pc' = "goto"
          /\ elapsed' = 0
          /\ UNCHANGED pending
       \/ /\ res' = [res EXCEPT !.new_page = "error"]
          /\ pending' = "new_page failed"
          /\ pc' = "with_exit"
          /\ UNCHANGED elapsed
    /\ UNCHANGED <<run, browser, out, fs, fsAtStart, captured, exitStatus, hist>>

\* page.goto("http://localhost:8081", timeout=60000): the call is still blocked
GotoTick ==
    /\ pc = "goto"
    /\ elapsed < GotoTimeoutMs
    /\ elapsed' = elapsed + TickMs
    /\ UNCHANGED <<pc, run, browser, out, fs, fsAtStart, res, attempts,
                   pending, captured, exitStatus, hist>>

\* page.goto("http://localhost:8081", timeout=60000): the call returns or raises
Goto ==
    /\ pc = "goto"
    /\ attempts' = Bump(attempts, "goto")
    /\ \/ /\ elapsed < GotoTimeoutMs
          /\ res' = [res EXCEPT !.goto = "ok"]
          /\ pc' = "wait"
          /\ UNCHANGED pending
       \/ /\ elapsed < GotoTimeoutMs
          /\ res' = [res EXCEPT !.goto = "refused"]
          /\ pending' = "net::ERR_CONNECTION_REFUSED"
          /\ pc' = "except"
       \/ /\ elapsed >= GotoTimeoutMs
          /\ res' = [res EXCEPT !.goto = "timeout"]
          /\ pending' = "Timeout 60000ms exceeded"
          /\ pc' = "except"
    /\ elapsed' = 0
    /\ UNCHANGED <<run, browser, out, fs, fsAtStart, captured, exitStatus, hist>>

\* expect(page.get_by_text("Nadar")).to_be_visible(timeout=30000): still polling
WaitTick ==
    /\ pc = "wait"
    /\ elapsed < WaitTimeoutMs
    /\ elapsed' = elapsed + TickMs
    /\ UNCHANGED <<pc, run, browser, out, fs, fsAtStart, res, attempts,
                   pending, captured, exitStatus, hist>>

\* variant: a visibility timeout is ignored and the capture goes ahead
WaitIgnoreTimeout ==
    /\ pc = "wait"
    /\ attempts' = Bump(attempts, "wait")
    /\ \/ /\ elapsed < WaitTimeoutMs
          /\ res' = [res EXCEPT !.wait = "ok"]
       \/ /\ elapsed >= WaitTimeoutMs
          /\ res' = [res EXCEPT !.wait = "timeout"]
    /\ pc' = "print_capturing"
    /\ elapsed' = 0
    /\ UNCHANGED <<run, browser, out, fs, fsAtStart, pending, captured,
                   exitStatus, hist>>

\* variant: a visibility timeout reloads the page and tries again
WaitRetryNavigation ==
    /\ pc = "wait"
    /\ attempts' = Bump(attempts, "wait")
    /\ \/ /\ elapsed < WaitTimeoutMs
          /\ res' = [res EXCEPT !.wait = "ok"]
          /\ pc' = "print_capturing"
       \/ /\ elapsed >= WaitTimeoutMs
          /\ res' = [res EXCEPT !.wait = "timeout"]
          /\ pc' = "goto"
    /\ elapsed' = 0
    /\ UNCHANGED <<run, browser, out, fs, fsAtStart, pending, captured,
                   exitStatus, hist>>

\* expect(page.get_by_text("Nadar")).to_be_visible(timeout=30000): returns or raises
WaitVisible ==
    /\ pc = "wait"
    /\ attempts' = Bump(attempts, "wait")
    /\ \/ /\ elapsed < WaitTimeoutMs
          /\ res' = [res EXCEPT !.wait = "ok"]
          /\ pc' = "print_capturing"
          /\ UNCHANGED pending
       \/ /\ elapsed >= WaitTimeoutMs
          /\ res' = [res EXCEPT !.wait = "timeout"]
          /\ pending' = "Locator expected to be visible"
          /\ pc' = "except"
    /\ elapsed' = 0
    /\ UNCHANGED <<run, browser, out, fs, fsAtStart, captured, exitStatus, hist>>

\* variant: both progress messages are printed ahead of the capture
PrintBothBefore ==
    /\ pc = "print_capturing"
    /\ out' = out \o <<MsgCapturing, MsgCaptured>>
    /\ pc' = "screenshot"
    /\ UNCHANGED <<run, browser, fs, fsAtStart, res, attempts, elapsed,
                   pending, captured, exitStatus, hist>>

\* print("Capturing Landing Screen...")
PrintCapturing ==
    /\ pc = "print_capturing"
    /\ Emit(MsgCapturing)
    /\ pc' = "screenshot"
    /\ UNCHANGED <<run, browser, fs, fsAtStart, res, attempts, elapsed,
                   pending, captured, exitStatus, hist>>

\* variant: screenshot() called without path=, nothing is written
ScreenshotNoPath ==
    /\ pc = "screenshot"
    /\ attempts' = Bump(attempts, "screenshot")
    /\ \/ \E c \in Contents :
             /\ res' = [res EXCEPT !.screenshot = "ok"]
             /\ captured' = <<[path |-> ScreenshotPath, content |-> c]>>
             /\ pc' = "print_captured"
             /\ UNCHANGED pending
       \/ /\ res' = [res EXCEPT !.screenshot = "error"]
          /\ pending' = "screenshot failed"
          /\ pc' = "except"
          /\ UNCHANGED captured
    /\ UNCHANGED <<run, browser, out, fs, fsAtStart, elapsed, exitStatus, hist>>

\* variant: every run writes a path of its own
VersionedPath == IF run = 1 THEN ScreenshotPath
                 ELSE "jules-scratch/verification/landing_screen_next.png"

ScreenshotVersioned ==
    /\ pc = "screenshot"
    /\ attempts' = Bump(attempts, "screenshot")
    /\ \/ \E c \in Contents :
             /\ res' = [res EXCEPT !.screenshot = "ok"]
             /\ captured' = <<[path |-> VersionedPath, content |-> c]>>
             /\ fs' = WriteFile(fs, VersionedPath, c)
             /\ pc' = "print_captured"
             /\ UNCHANGED pending
       \/ /\ res' = [res EXCEPT !.screenshot = "error"]
          /\ pending' = "screenshot failed"
          /\ fs' \in {fs, WriteFile(fs, VersionedPath, Partial)}
          /\ pc' = "except"
          /\ UNCHANGED captured
    /\ UNCHANGED <<run, browser, out, fsAtStart, elapsed, exitStatus, hist>>

\* page.screenshot(path=ScreenshotPath)
Screenshot ==
    /\ pc = "screenshot"
    /\ attempts' = Bump(attempts, "screenshot")
    /\ \/ \E c \in Contents :
             /\ res' = [res EXCEPT !.screenshot = "ok"]
             /\ captured' = <<[path |-> ScreenshotPath, content |-> c]>>
             /\ fs' = WriteFile(fs, ScreenshotPath, c)
             /\ pc' = "print_captured"
             /\ UNCHANGED pending
       \/ /\ res' = [res EXCEPT !.screenshot = "error"]
          /\ pending' = "screenshot failed"
          /\ fs' \in {fs, WriteFile(fs, ScreenshotPath, Partial)}
          /\ pc' = "except"
          /\ UNCHANGED captured
    /\ UNCHANGED <<run, browser, out, fsAtStart, elapsed, exitStatus, hist>>

\* print("Landing Screen captured.")
PrintCaptured ==
    /\ pc = "print_captured"
    /\ Emit(MsgCaptured)
    /\ pc' = "finally"
    /\ UNCHANGED <<run, browser, fs, fsAtStart, res, attempts, elapsed,
                   pending, captured, exitStatus, hist>>

\* variant: the handler prints and re-raises
ExceptReraise ==
    /\ pc = "except"
    /\ Emit(MsgError(pending))
    /\ pc' = "finally"
    /\ UNCHANGED <<run, browser, fs, fsAtStart, res, attempts, elapsed,
                   pending, captured, exitStatus, hist>>

\* variant: the handler removes the screenshot of a failed run
ExceptCleanup ==
    /\ pc = "except"
    /\ Emit(MsgError(pending))
    /\ pending' = "none"
    /\ fs' = [p \in DOMAIN fs \ {ScreenshotPath} |-> fs[p]]
    /\ pc' = "finally"
    /\ UNCHANGED <<run, browser, fsAtStart, res, attempts, elapsed,
                   captured, exitStatus, hist>>

\* except Exception as e: print(f"An error occurred ...: {e}")
ExceptHandler ==
    /\ pc = "except"
    /\ Emit(MsgError(pending))
    /\ pending' = "none"
    /\ pc' = "finally"
    /\ UNCHANGED <<run, browser, fs, fsAtStart, res, attempts, elapsed,
                   captured, exitStatus, hist>>

\* variant: browser.close() is the last statement of the try body, so it is
\* skipped once the handler has run
CloseInTryBody ==
    /\ pc = "finally"
    /\ IF \E i \in DOMAIN out : out[i][1] = ErrPrefix
       THEN /\ pc' = "with_exit"
            /\ UNCHANGED <<res, attempts, browser, pending>>
       ELSE /\ attempts' = Bump(attempts, "close")
            /\ \/ /\ res' = [res EXCEPT !.close = "ok"]
                  /\ browser' = "closed"
                  /\ pc' = "print_closed"
                  /\ UNCHANGED pending
               \/ /\ res' = [res EXCEPT !.close = "error"]
                  /\ browser' \in {"running", "closed"}
                  /\ pending' = "close failed"
                  /\ pc' = "with_exit"
    /\ UNCHANGED <<run, out, fs, fsAtStart, elapsed, captured, exitStatus, hist>>

\* finally: browser.close()
FinallyClose ==
    /\ pc = "finally"
    /\ attempts' = Bump(attempts, "close")
    /\ \/ /\ res' = [res EXCEPT !.close = "ok"]
          /\ browser' = "closed"
          /\ pc' = "print_closed"
          /\ UNCHANGED pending
       \/ /\ res' = [res EXCEPT !.close = "error"]
          /\ browser' \in {"running", "closed"}
          /\ pending' = "close failed"
          /\ pc' = "with_exit"
    /\ UNCHANGED <<run, out, fs, fsAtStart, elapsed, captured, exitStatus, hist>>

\* finally: print("Browser closed.")
PrintClosed ==
    /\ pc = "print_closed"
    /\ Emit(MsgClosed)
    /\ pc' = "with_exit"
    /\ UNCHANGED <<run, browser, fs, fsAtStart, res, attempts, elapsed,
                   pending, captured, exitStatus, hist>>

\* leaving "with sync_playwright() as p": the driver stops and takes the
\* browsers it launched with it; an exception in flight keeps propagating
WithExit ==
    /\ pc = "with_exit"
    /\ browser' = IF browser = "running" THEN "closed" ELSE browser
    /\ pc' = "returned"
    /\ UNCHANGED <<run, out, fs, fsAtStart, res, attempts, elapsed,
                   pending, captured, exitStatus, hist>>

\* variant: a caught failure is turned into a non-zero exit status
ProcessExitPropagating ==
    /\ pc = "returned"
    /\ exitStatus' = IF pending = "none"
                        /\ ~ \E i \in DOMAIN out : out[i][1] = ErrPrefix
                     THEN 0 ELSE 1
    /\ hist' = Append(hist, [res |-> res, captured |-> captured,
                             fsBefore |-> fsAtStart, fsAfter |-> fs,
                             out |-> out, status |-> exitStatus'])
    /\ pc' = "done"
    /\ UNCHANGED <<run, browser, out, fs, fsAtStart, res, attempts, elapsed,
                   pending, captured>>

\* if __name__ == "__main__": run_verification() -- the interpreter exits
\* with 0 after a normal return and with 1 on an uncaught exception
ProcessExit ==
    /\ pc = "returned"
    /\ exitStatus' = IF pending = "none" THEN 0 ELSE 1
    /\ hist' = Append(hist, [res |-> res, captured |-> captured,
                             fsBefore |-> fsAtStart, fsAfter |-> fs,
                             out |-> out, status |-> exitStatus'])
    /\ pc' = "done"
    /\ UNCHANGED <<run, browser, out, fs, fsAtStart, res, attempts, elapsed,
                   pending, captured>>

\* the script is started again; only the file system is carried over
StartRun ==
    /\ pc = "done"
    /\ run < MaxRuns
    /\ run' = run + 1
    /\ pc' = "launch"
    /\ browser' = "none"
    /\ out' = <<>>
    /\ fsAtStart' = fs
    /\ res' = NoRes
    /\ attempts' = NoAttempts
    /\ elapsed' = 0
    /\ pending' = "none"
    /\ captured' = <<>>
    /\ exitStatus' = 0
    /\ UNCHANGED <<fs, hist>>

RunStep ==
    \/ Launch \/ NewPage \/ GotoTick \/ Goto \/ WaitTick \/ WaitVisible
    \/ PrintCapturing \/ Screenshot \/ PrintCaptured \/ ExceptHandler
    \/ FinallyClose \/ PrintClosed \/ WithExit \/ ProcessExit

Next == RunStep \/ StartRun

Spec == Init /\ [][Next]_vars

\* every statement of the sequential script is eventually executed: the two
\* blocking calls are bounded by their timeouts, the clock keeps advancing
FairSpec == Spec /\ WF_vars(RunStep)

TypeOK ==
    /\ pc \in {"launch", "new_page", "goto", "wait", "print_capturing",
               "screenshot", "print_captured", "except", "finally",
               "print_closed", "with_exit", "returned", "done"}
    /\ run \in 1..MaxRuns
    /\ browser \in {"none", "running", "closed"}
    /\ exitStatus \in {0, 1}
    /\ Len(captured) <= 1
    /\ elapsed \in 0..(GotoTimeoutMs + TickMs)
    /\ Len(hist) <= MaxRuns

\* ------------------------------------------------------- vocabulary of claims
TrySteps == {"goto", "wait", "screenshot"}
Failed(r, step) == r[step] \notin {"none", "ok"}
TryEntered == res.new_page = "ok"
TryLeft == pc \in {"print_closed", "with_exit", "returned", "done"}
HandlerDone == pc \in {"finally", "print_closed", "with_exit", "returned", "done"}
ErrIdx == {i \in DOMAIN out : out[i][1] = ErrPrefix}
Idx(msg) == {i \in DOMAIN out : out[i] = msg}
Happy(r) == /\ r.launch = "ok" /\ r.new_page = "ok" /\ r.goto = "ok"
            /\ r.wait = "ok" /\ r.screenshot = "ok"
NavOrWaitFailed(r) == Failed(r, "goto") \/ Failed(r, "wait")
Rank(l) ==
    CASE l = "launch" -> 1 [] l = "new_page" -> 2 [] l = "goto" -> 3
      [] l = "wait" -> 4 [] l = "print_capturing" -> 5 [] l = "screenshot" -> 6
      [] l = "print_captured" -> 7 [] l = "except" -> 8 [] l = "finally" -> 9
      [] l = "print_closed" -> 10 [] l = "with_exit" -> 11
      [] l = "returned" -> 12 [] l = "done" -> 13

\* C1 -- cleanup guarantee: once the try statement has been entered, whatever
\* navigation, visibility wait and screenshot did, browser.close() has been
\* called exactly once by the time the try statement is left, a close that
\* did not raise has left the browser closed, and no browser is running once
\* run_verification() has ended.
C1_CleanupGuarantee ==
    /\ (TryEntered /\ TryLeft) =>
          /\ attempts.close = 1
          /\ (res.close = "ok" => browser = "closed")
    /\ (pc \in {"returned", "done"}) => browser # "running"

C1_Witness ==
    /\ pc = "returned"
    /\ Failed(res, "wait")
    /\ res.close = "ok"
    /\ browser = "closed"

\* C2 (as stated) -- the exit status of every finished process run is 0.
C2_ExitAlwaysZero == (pc = "done") => exitStatus = 0

\* C2 (amended) -- the exit status of a finished run is 0 exactly when launch,
\* new_page and browser.close() did not raise; a failure of navigation, of the
\* visibility wait or of the screenshot never changes it.
C2_ExitZeroUnlessOutsideTry ==
    (pc = "done") =>
        (exitStatus = 0 <=>
            (res.launch = "ok" /\ res.new_page = "ok" /\ res.close = "ok"))

C2_Witness ==
    /\ pc = "done"
    /\ Failed(res, "goto")
    /\ res.close = "ok"
    /\ exitStatus = 0

\* C3 -- a failure of navigation, wait or screenshot prints exactly one
\* diagnostic carrying the failure's text, is not re-raised, skips the rest
\* of the try body, and no step is attempted more than once.
C3_FailureHandledOnce ==
    /\ \A step \in TrySteps : attempts[step] <= 1
    /\ Cardinality(ErrIdx) <= 1
    /\ (pc = "except") =>
          /\ \E step \in TrySteps : Failed(res, step)
          /\ pending # "none"
          /\ ErrIdx = {}
    /\ ((\E step \in TrySteps : Failed(res, step)) /\ HandlerDone) =>
          /\ Cardinality(ErrIdx) = 1
          /\ pending \in {"none", "close failed"}
          /\ (pc = "finally" => pending = "none")
          /\ Idx(MsgCaptured) = {}
          /\ (Failed(res, "goto") =>
                 attempts.wait = 0 /\ attempts.screenshot = 0
                 /\ Idx(MsgCapturing) = {})
          /\ (Failed(res, "wait") =>
                 attempts.screenshot = 0 /\ Idx(MsgCapturing) = {})

C3_Witness ==
    /\ pc = "done"
    /\ res.screenshot = "error"
    /\ Cardinality(ErrIdx) = 1
    /\ exitStatus = 0

\* C4 -- the screenshot is attempted only after navigation and the wait both
\* succeeded in this run; a run whose navigation or wait failed captures
\* nothing, creates no file at the screenshot path and prints the diagnostic.
C4_ScreenshotOnlyAfterWait ==
    /\ (pc \in {"print_capturing", "screenshot"} \/ attempts.screenshot > 0) =>
          (res.goto = "ok" /\ res.wait = "ok")
    /\ (NavOrWaitFailed(res) /\ HandlerDone) =>
          /\ attempts.screenshot = 0
          /\ captured = <<>>
          /\ (ScreenshotPath \notin DOMAIN fsAtStart =>
                 ScreenshotPath \notin DOMAIN fs)
          /\ ErrIdx # {}

C4_Witness ==
    /\ pc = "done"
    /\ res.wait = "timeout"
    /\ ScreenshotPath \notin DOMAIN fs
    /\ ErrIdx # {}

\* C5 -- after a successful run has returned, the file at the screenshot path
\* exists and holds the image the run captured.
C5_FileExistsAfterSuccess ==
    (Happy(res) /\ pc \in {"returned", "done"}) =>
        /\ ScreenshotPath \in DOMAIN fs
        /\ fs[ScreenshotPath] \in Contents
        /\ captured = <<[path |-> ScreenshotPath, content |-> fs[ScreenshotPath]]>>

C5_Witness ==
    /\ pc = "done"
    /\ Happy(res)
    /\ ScreenshotPath \notin DOMAIN fsAtStart
    /\ ScreenshotPath \in DOMAIN fs

\* C6 -- after two successful runs in a row both have written the same path,
\* that path is the only file there is, and it holds what the second run
\* captured.
C6_OverwriteSamePath ==
    (pc = "done" /\ Len(hist) >= 2
        /\ Happy(hist[Len(hist) - 1].res) /\ Happy(hist[Len(hist)].res)) =>
        /\ hist[Len(hist) - 1].captured[1].path = ScreenshotPath
        /\ hist[Len(hist)].captured[1].path = ScreenshotPath
        /\ DOMAIN fs = {ScreenshotPath}
        /\ fs[ScreenshotPath] = hist[Len(hist)].captured[1].content
        /\ hist[Len(hist) - 1].fsAfter[ScreenshotPath]
              = hist[Len(hist) - 1].captured[1].content

C6_Witness ==
    /\ pc = "done"
    /\ Len(hist) >= 2
    /\ Happy(hist[Len(hist) - 1].res)
    /\ Happy(hist[Len(hist)].res)
    /\ hist[Len(hist) - 1].captured[1].content # hist[Len(hist)].captured[1].content
    /\ fs[ScreenshotPath] = hist[Len(hist)].captured[1].content

\* C7 -- "Capturing Landing Screen..." is printed once, after the wait
\* succeeded and before the capture starts; "Landing Screen captured." is
\* printed only after a successful capture; a run whose capture fails prints
\* the first message and then the diagnostic, never the second message.
C7_MessagesBracketCapture ==
    /\ Cardinality(Idx(MsgCapturing)) <= 1
    /\ Cardinality(Idx(MsgCaptured)) <= 1
    /\ (Idx(MsgCapturing) # {}) => res.wait = "ok"
    /\ (pc = "screenshot" \/ attempts.screenshot > 0) =>
          Idx(MsgCapturing) # {}
    /\ (pc = "print_capturing") => attempts.screenshot = 0
    /\ (Idx(MsgCaptured) # {}) =>
          /\ res.screenshot = "ok"
          /\ \A i \in Idx(MsgCapturing), j \in Idx(MsgCaptured) : i < j
    /\ (res.screenshot = "error" /\ HandlerDone) =>
          /\ Idx(MsgCapturing) # {}
          /\ Idx(MsgCaptured) = {}
          /\ ErrIdx # {}
          /\ \A i \in Idx(MsgCapturing), j \in ErrIdx : i < j

C7_Witness ==
    /\ pc = "done"
    /\ res.screenshot = "error"
    /\ Idx(MsgCapturing) # {}
    /\ Idx(MsgCaptured) = {}

\* C8 -- every started run terminates, and within a run control only moves
\* forward: no step of the script hands control back to an earlier one.
C8_Terminates ==
    /\ (pc # "done") ~> (pc = "done")
    /\ [][(pc' # pc /\ pc # "done") => Rank(pc') > Rank(pc)]_vars
    /\ [][(pc' = pc) =>
            (elapsed' > elapsed /\ pc \in {"goto", "wait"})]_vars

C8_Witness ==
    /\ pc = "done"
    /\ res.goto = "ok"
    /\ res.wait = "timeout"

\* C9 -- a failure of launch or new_page happens ahead of the try statement:
\* no diagnostic is printed, browser.close() is not called, "Browser closed."
\* is not printed, and the failure leaves run_verification().
C9_FailureBeforeTryPropagates ==
    (Failed(res, "launch") \/ Failed(res, "new_page")) =>
        /\ ErrIdx = {}
        /\ attempts.close = 0
        /\ Idx(MsgClosed) = {}
        /\ out = <<>>
        /\ pc \in {"with_exit", "returned", "done"}
        /\ pending \in {"launch failed", "new_page failed"}
        /\ (pc = "done" => exitStatus = 1)

C9_Witness ==
    /\ pc = "done"
    /\ Failed(res, "new_page")
    /\ exitStatus = 1

\* C10 -- a run that fails at navigation or at the wait leaves the file system
\* as it found it; after a successful run followed by such a failed run the
\* screenshot of the successful run is still there.
C10_FailedRunLeavesFile ==
    /\ NavOrWaitFailed(res) => fs = fsAtStart
    /\ (pc = "done" /\ Len(hist) >= 2 /\ Happy(hist[Len(hist) - 1].res)
          /\ NavOrWaitFailed(res)) =>
          /\ ScreenshotPath \in DOMAIN fs
          /\ fs[ScreenshotPath] = hist[Len(hist) - 1].captured[1].content

C10_Witness ==
    /\ pc = "done"
    /\ Len(hist) >= 2
    /\ Happy(hist[Len(hist) - 1].res)
    /\ NavOrWaitFailed(res)
    /\ ScreenshotPath \in DOMAIN fs
====
